---- MODULE Spec2Model ----
(***************************************************************************)
(* Model of src/services/geminiService.ts: the image fallback chain        *)
(* (generateRecipeImage -> generateRecipeImageFallback ->                   *)
(* generatePlaceholderImage) and the response handling of the text          *)
(* operations (identifyIngredients, generateRecipes, reinventRecipe).       *)
(*                                                                         *)
(* Strings whose characters matter (the recipe name, the SVG markup, blob   *)
(* payloads) are sequences of code points / bytes.                          *)
(***************************************************************************)
EXTENDS Integers, Sequences, FiniteSets, TLC

----------------------------------------------------------------------------
(* Bounds of the model *)

MaxNameLen == 3
MaxRecipes == 2
MaxInstructions == 3

----------------------------------------------------------------------------
(* Values *)

Undefined == "undefined"

Space == 32
LetterA == 97
HornO == 7903   \* a code point above U+00FF, outside the Latin-1 range

NameChars == {Space, LetterA, HornO}

RECURSIVE SeqsUpTo(_, _)
SeqsUpTo(S, n) ==
    IF n = 0 THEN {<< >>}
    ELSE LET shorter == SeqsUpTo(S, n - 1)
         IN shorter \cup {Append(s, c) : s \in {t \in shorter : Len(t) = n - 1}, c \in S}

RecipeNames == SeqsUpTo(NameChars, MaxNameLen)

\* payloads an image backend can answer with
BlobBytes == {<<137, 80>>, <<255, 216, 255>>}
Blobs == [type : {"image/jpeg"}, bytes : BlobBytes]

\* execution environments of generatePlaceholderImage
Envs == {"canvas", "noContext", "noDocument"}

----------------------------------------------------------------------------
(* Base64, as computed by btoa / FileReader.readAsDataURL.  A digit is a    *)
(* value 0..63, Pad stands for '='.                                         *)

Pad == 64

Base64Encode(bytes) ==
    LET n == Len(bytes)
        Byte(i) == IF i <= n THEN bytes[i] ELSE 0
        Group(g) == Byte(3 * g - 2) * 65536 + Byte(3 * g - 1) * 256 + Byte(3 * g)
        Digit(g, k) ==
            CASE k = 1 -> Group(g) \div 262144
              [] k = 2 -> (Group(g) \div 4096) % 64
              [] k = 3 -> IF 3 * g - 1 <= n THEN (Group(g) \div 64) % 64 ELSE Pad
              [] k = 4 -> IF 3 * g <= n THEN Group(g) % 64 ELSE Pad
    IN [i \in 1..(4 * ((n + 2) \div 3)) |-> Digit((i + 3) \div 4, ((i - 1) % 4) + 1)]

Base64Decode(digits) ==
    LET m == Len(digits)
        pads == Cardinality({i \in 1..m : digits[i] = Pad})
        Val(i) == IF digits[i] = Pad THEN 0 ELSE digits[i]
        Group(g) == Val(4 * g - 3) * 262144 + Val(4 * g - 2) * 4096
                    + Val(4 * g - 1) * 64 + Val(4 * g)
        Byte(g, k) ==
            CASE k = 1 -> Group(g) \div 65536
              [] k = 2 -> (Group(g) \div 256) % 256
              [] k = 3 -> Group(g) % 256
    IN [i \in 1..(3 * (m \div 4) - pads) |-> Byte((i + 2) \div 3, ((i - 1) % 3) + 1)]

\* btoa throws InvalidCharacterError on a code point outside Latin-1
BtoaThrows(s) == \E i \in 1..Len(s) : s[i] > 255

\* blobToBase64: FileReader.readAsDataURL gives "data:<type>;base64,<digits>"
blobToBase64(blob) ==
    [scheme |-> "data", mime |-> blob.type, base64 |-> Base64Encode(blob.bytes),
     drawn |-> << >>]

----------------------------------------------------------------------------
(* generatePlaceholderImage *)

CanvasSize == 512
MaxLineWidth == 400
LineHeight == 30

\* ctx.measureText(text).width under 'bold 24px Arial', scaled so that the
\* names of the model are wide enough to wrap: every glyph has this width
GlyphWidth == 150

measureText(text) == Len(text) * GlyphWidth

\* recipeName.split(' ')
RECURSIVE split(_)
split(s) ==
    IF \A i \in 1..Len(s) : s[i] # Space THEN <<s>>
    ELSE LET i == CHOOSE j \in 1..Len(s) :
                      s[j] = Space /\ \A k \in 1..(j - 1) : s[k] # Space
         IN <<SubSeq(s, 1, i - 1)>> \o split(SubSeq(s, i + 1, Len(s)))

\* the word-wrapping loop: st is [lines, currentLine] after the first k words
RECURSIVE wrapFrom(_, _, _)
wrapFrom(words, k, st) ==
    IF k > Len(words) THEN Append(st.lines, st.currentLine)
    ELSE LET word == words[k]
             testLine == st.currentLine
                         \o (IF st.currentLine # << >> THEN <<Space>> ELSE << >>)
                         \o word
         IN IF measureText(testLine) > MaxLineWidth /\ st.currentLine # << >>
            THEN wrapFrom(words, k + 1,
                          [lines |-> Append(st.lines, st.currentLine), currentLine |-> word])
            ELSE wrapFrom(words, k + 1,
                          [lines |-> st.lines, currentLine |-> testLine])

wrapLines(recipeName) ==
    wrapFrom(split(recipeName), 1, [lines |-> << >>, currentLine |-> << >>])

\* the fillText calls: each line centred at x = 256, lines 30 apart around y = 256
drawLines(lines) ==
    LET startY == (CanvasSize \div 2) - ((Len(lines) - 1) * LineHeight) \div 2
    IN [i \in 1..Len(lines) |->
          [text |-> lines[i], x |-> CanvasSize \div 2, y |-> startY + (i - 1) * LineHeight]]

\* the markup around the interpolated name, abbreviated to "<text>" ... "</text>"
SvgHead == <<60, 116, 101, 120, 116, 62>>
SvgTail == <<60, 47, 116, 101, 120, 116, 62>>

svgDocument(recipeName) == SvgHead \o recipeName \o SvgTail

\* does the call throw?  document is not defined, or btoa rejects the markup
placeholderThrows(recipeName, env) ==
    \/ env = "noDocument"
    \/ env = "noContext" /\ BtoaThrows(svgDocument(recipeName))

generatePlaceholderImage(recipeName, env) ==
    IF env = "canvas"
    THEN [scheme |-> "data", mime |-> "image/jpeg", base64 |-> << >>,
          drawn |-> drawLines(wrapLines(recipeName))]
    ELSE [scheme |-> "data", mime |-> "image/svg+xml",
          base64 |-> Base64Encode(svgDocument(recipeName)), drawn |-> << >>]

----------------------------------------------------------------------------
(* JSON values and response texts *)

NoFields == [k \in {} |-> Undefined]

JValue(t, items, fields) == [type |-> t, items |-> items, fields |-> fields]
JUndefined == JValue("undefined", << >>, NoFields)
JNull == JValue("null", << >>, NoFields)
JNumber == JValue("number", << >>, NoFields)
JString == JValue("string", << >>, NoFields)
JArray(items) == JValue("array", items, NoFields)
JObject(fields) == JValue("object", << >>, fields)

\* ChefPersonality ids
NORMAL == "normal"
MICHELIN == "michelin"
BUDGET_MOM == "budget_mom"
QUICK_CHEF == "quick_chef"
Personas == {NORMAL, MICHELIN, BUDGET_MOM, QUICK_CHEF}

\* the recipe entries a response can carry: without a persona, with one, or null
RawRecipes ==
    { JObject([recipeName |-> "Soup"]),
      JObject([recipeName |-> "Soup", chefPersonality |-> MICHELIN]),
      JObject([recipeName |-> "Soup", chefPersonality |-> NORMAL]),
      JNull }

\* the documents a response text can hold
JsonValues ==
    { JNull, JNumber, JArray(<< >>), JObject(NoFields),
      JObject([ingredients |-> JArray(<< >>)]),
      JObject([ingredients |-> JArray(<<"tomato", "egg">>)]),
      JObject([ingredients |-> JNull]),
      JObject([recipes |-> JNull]),
      JObject([recipes |-> JString]) }
    \cup { JObject([recipes |-> JArray(rs)]) : rs \in SeqsUpTo(RawRecipes, MaxRecipes) }

\* response.text: undefined, text that is not JSON, or the text of a document;
\* padded: the text has whitespace around it
Text(kind, padded, value) == [kind |-> kind, padded |-> padded, value |-> value]
UndefinedText == Text("undefined", FALSE, JUndefined)
Texts ==
    {UndefinedText}
    \cup { Text("malformed", p, JUndefined) : p \in BOOLEAN }
    \cup { Text("json", p, v) : p \in BOOLEAN, v \in JsonValues }

\* String.prototype.trim
trim(text) == [text EXCEPT !.padded = FALSE]

\* JSON.parse(jsonStr): throws SyntaxError on text that is not JSON
JSONParseThrows(jsonStr) == jsonStr.kind # "json"
JSONParse(jsonStr) == jsonStr.value

\* value.key: TypeError on null and undefined, undefined when there is no such key
getThrows(value) == value.type \in {"null", "undefined"}
get(value, key) ==
    IF value.type = "object" /\ key \in DOMAIN value.fields
    THEN value.fields[key]
    ELSE JUndefined

\* an error object: new Error(message) has a name and a message, nothing else
Error(name, message) == [name |-> name, message |-> message, attached |-> {}]

\* what a rejected ai.models.generateContent call throws
ApiError == Error("ApiError", "generateContent failed")

----------------------------------------------------------------------------
(* Strings, as sequences of code points *)

\* String.prototype.toLowerCase on Latin-1: A-Z and the accented capitals
lowerCase(c) ==
    IF (c >= 65 /\ c <= 90) \/ (c >= 192 /\ c <= 222 /\ c # 215) THEN c + 32 ELSE c
toLowerCase(str) == [i \in 1..Len(str) |-> lowerCase(str[i])]

\* String.prototype.includes
includes(str, word) ==
    \E start \in 0..(Len(str) - Len(word)) :
        \A i \in 1..Len(word) : str[start + i] = word[i]

\* Array.prototype.join
RECURSIVE join(_, _)
join(strs, separator) ==
    IF strs = << >> THEN << >>
    ELSE IF Len(strs) = 1 THEN strs[1]
    ELSE strs[1] \o separator \o join(Tail(strs), separator)

\* String.prototype.trim: white space off both ends
WhiteSpace == {9, 10, 13, 32, 160}
RECURSIVE trimStart(_)
trimStart(str) ==
    IF str # << >> /\ str[1] \in WhiteSpace THEN trimStart(Tail(str)) ELSE str
RECURSIVE trimEnd(_)
trimEnd(str) ==
    IF str # << >> /\ str[Len(str)] \in WhiteSpace
    THEN trimEnd(SubSeq(str, 1, Len(str) - 1))
    ELSE str
trimString(str) == trimEnd(trimStart(str))

\* an optional string argument: absent (undefined) or given
Absent == [given |-> FALSE, chars |-> << >>]
Given(str) == [given |-> TRUE, chars |-> str]

----------------------------------------------------------------------------
(* extractCookingMethod *)

KwBake == <<98, 97, 107, 101>>   \* "bake"
KwOven == <<111, 118, 101, 110>>   \* "oven"
KwFry == <<102, 114, 121>>   \* "fry"
KwPan == <<112, 97, 110>>   \* "pan"
KwGrill == <<103, 114, 105, 108, 108>>   \* "grill"
KwBoil == <<98, 111, 105, 108>>   \* "boil"
KwSimmer == <<115, 105, 109, 109, 101, 114>>   \* "simmer"
KwSteam == <<115, 116, 101, 97, 109>>   \* "steam"
KwRoast == <<114, 111, 97, 115, 116>>   \* "roast"
KwSaute == <<115, 97, 117, 116, 233>>   \* "sauté"
KwMix == <<109, 105, 120>>   \* "mix"
KwToss == <<116, 111, 115, 115>>   \* "toss"

\* the instructions of the model: one word each
InstructionWords ==
    { KwBake, KwOven, KwFry, KwPan, KwGrill, KwBoil, KwSimmer, KwSteam, KwRoast, KwSaute,
      KwMix, KwToss,
      <<67, 104, 111, 112>>,     \* "Chop"
      <<66, 65, 75, 69>>,     \* "BAKE"
      <<83, 65, 85, 84, 201>> }  \* "SAUTE" with E acute

Instructions == SeqsUpTo(InstructionWords, MaxInstructions)

\* extractCookingMethod with the grill test moved to the front
extractCookingMethodGrillFirst(instructions) ==
    LET instructionsText == toLowerCase(join(instructions, <<Space>>))
    IN CASE includes(instructionsText, KwGrill) -> "grilled with char marks"
         [] includes(instructionsText, KwBake) \/ includes(instructionsText, KwOven) ->
               "baked to perfection"
         [] includes(instructionsText, KwFry) \/ includes(instructionsText, KwPan) ->
               "pan-fried until golden"
         [] includes(instructionsText, KwBoil) \/ includes(instructionsText, KwSimmer) ->
               "simmered carefully"
         [] includes(instructionsText, KwSteam) -> "steamed delicately"
         [] includes(instructionsText, KwRoast) -> "roasted until tender"
         [] includes(instructionsText, KwSaute) -> "sautéed with herbs"
         [] includes(instructionsText, KwMix) \/ includes(instructionsText, KwToss) ->
               "artfully combined"
         [] OTHER -> "expertly prepared"

\* extractCookingMethod without its last test (mix / toss)
extractCookingMethodNoMix(instructions) ==
    LET instructionsText == toLowerCase(join(instructions, <<Space>>))
    IN IF includes(instructionsText, KwBake) \/ includes(instructionsText, KwOven)
       THEN "baked to perfection"
       ELSE IF includes(instructionsText, KwFry) \/ includes(instructionsText, KwPan)
       THEN "pan-fried until golden"
       ELSE IF includes(instructionsText, KwGrill) THEN "grilled with char marks"
       ELSE IF includes(instructionsText, KwBoil) \/ includes(instructionsText, KwSimmer)
       THEN "simmered carefully"
       ELSE IF includes(instructionsText, KwSteam) THEN "steamed delicately"
       ELSE IF includes(instructionsText, KwRoast) THEN "roasted until tender"
       ELSE IF includes(instructionsText, KwSaute) THEN "sautéed with herbs"
       ELSE "expertly prepared"

\* the tests in source order: the first that holds decides
extractCookingMethod(instructions) ==
    LET instructionsText == toLowerCase(join(instructions, <<Space>>))
    IN IF includes(instructionsText, KwBake) \/ includes(instructionsText, KwOven)
       THEN "baked to perfection"
       ELSE IF includes(instructionsText, KwFry) \/ includes(instructionsText, KwPan)
       THEN "pan-fried until golden"
       ELSE IF includes(instructionsText, KwGrill) THEN "grilled with char marks"
       ELSE IF includes(instructionsText, KwBoil) \/ includes(instructionsText, KwSimmer)
       THEN "simmered carefully"
       ELSE IF includes(instructionsText, KwSteam) THEN "steamed delicately"
       ELSE IF includes(instructionsText, KwRoast) THEN "roasted until tender"
       ELSE IF includes(instructionsText, KwSaute) THEN "sautéed with herbs"
       ELSE IF includes(instructionsText, KwMix) \/ includes(instructionsText, KwToss)
       THEN "artfully combined"
       ELSE "expertly prepared"

----------------------------------------------------------------------------
(* State *)

VARIABLES
    pc,                 \* position of the one call in flight ("idle": none)
    op,                 \* the operation called
    recipeName,         \* recipe.recipeName of a generateRecipeImage call
    env,                \* environment generatePlaceholderImage runs in
    frame,              \* where generateRecipeImageFallback was called from
    primaryStatus,      \* progress of the Hugging Face attempt
    secondaryStatus,    \* progress of the Pollinations attempt
    placeholderStatus,  \* progress of generatePlaceholderImage
    primaryCalls,       \* fetches sent to the primary backend in this call
    secondaryCalls,     \* fetches sent to the secondary backend in this call
    secondaryBlob,      \* payload of the last secondary response
    chefPersonality,    \* persona argument of a generateRecipes / reinventRecipe call
    response,           \* response of ai.models.generateContent
    requestRecipes,     \* request.recipes of a generateCookingSchedule call
    logged,             \* what console.error was last given
    result,             \* what the caller gets: a value or an error
    fn,                 \* the helper last applied on its own ("none": none yet)
    input,              \* the arguments it was applied to
    output              \* what it returned

imageVars == <<recipeName, env, frame, primaryStatus, secondaryStatus, placeholderStatus,
               primaryCalls, secondaryCalls, secondaryBlob>>
textVars == <<chefPersonality, response, requestRecipes>>
helperVars == <<fn, input, output>>
vars == <<pc, op, imageVars, textVars, logged, result, helperVars>>

NoResult == [kind |-> "none", value |-> Undefined, error |-> Undefined]
Returned(v) == [kind |-> "value", value |-> v, error |-> Undefined]
Thrown(e) == [kind |-> "error", value |-> Undefined, error |-> e]

NoBlob == [type |-> "none", bytes |-> << >>]
NoResponse == [state |-> "none", text |-> UndefinedText]
Logged(message, detail) == [message |-> message, detail |-> detail]
NothingLogged == Logged("", UndefinedText)

Init ==
    /\ pc = "idle"
    /\ op = "none"
    /\ recipeName = << >>
    /\ env = "canvas"
    /\ frame = "none"
    /\ primaryStatus = "idle"
    /\ secondaryStatus = "idle"
    /\ placeholderStatus = "idle"
    /\ primaryCalls = 0
    /\ secondaryCalls = 0
    /\ secondaryBlob = NoBlob
    /\ chefPersonality = Undefined
    /\ response = NoResponse
    /\ requestRecipes = JUndefined
    /\ logged = NothingLogged
    /\ result = NoResult
    /\ fn = "none"
    /\ input = << >>
    /\ output = << >>

----------------------------------------------------------------------------
(* Image fallback chain *)

\* the error generatePlaceholderImage throws in env
placeholderError(e) ==
    IF e = "noDocument"
    THEN Error("ReferenceError", "document is not defined")
    ELSE Error("InvalidCharacterError", "btoa: character out of range")

\* generateRecipeImageFallback(recipe) up to its await fetch(imageUrl)
enterFallback(from) ==
    /\ pc' = "secondaryFetch"
    /\ frame' = from
    /\ secondaryStatus' = "running"
    /\ secondaryCalls' = secondaryCalls + 1

\* generateRecipeImage(recipe) up to its await fetch(...)
generateRecipeImage ==
    /\ pc = "idle"
    /\ \E name \in RecipeNames, e \in Envs :
          /\ recipeName' = name
          /\ env' = e
    /\ op' = "generateRecipeImage"
    /\ pc' = "primaryFetch"
    /\ frame' = "none"
    /\ primaryStatus' = "running"
    /\ secondaryStatus' = "idle"
    /\ placeholderStatus' = "idle"
    /\ primaryCalls' = 1
    /\ secondaryCalls' = 0
    /\ secondaryBlob' = NoBlob
    /\ result' = NoResult
    /\ UNCHANGED <<textVars, logged, helperVars>>

\* the primary fetch settles: it threw, answered !response.ok, or answered ok
primaryFetchSettles ==
    /\ pc = "primaryFetch"
    /\ \E outcome \in {"throws", "notOk", "ok"} :
          CASE outcome = "throws" ->
                  /\ primaryStatus' = "failed"
                  /\ logged' = Logged("Error generating image with Hugging Face:", UndefinedText)
                  /\ enterFallback("catch")
            [] outcome = "notOk" ->
                  /\ primaryStatus' = "failed"
                  /\ enterFallback("try")
                  /\ UNCHANGED logged
            [] outcome = "ok" ->
                  /\ pc' = "primaryBlob"
                  /\ UNCHANGED <<frame, primaryStatus, secondaryStatus, secondaryCalls, logged>>
    /\ UNCHANGED <<op, recipeName, env, placeholderStatus, primaryCalls, secondaryBlob,
                   textVars, result, helperVars>>

\* primaryBlobSettles racing the fallback: the secondary backend is called
\* although the primary payload was converted
primaryBlobSettlesRacing ==
    /\ pc = "primaryBlob"
    /\ \/ \E blob \in Blobs :
             /\ primaryStatus' = "ok"
             /\ enterFallback("catch")
             /\ UNCHANGED <<result, logged>>
       \/ /\ primaryStatus' = "failed"
          /\ logged' = Logged("Error generating image with Hugging Face:", UndefinedText)
          /\ enterFallback("catch")
          /\ UNCHANGED result
    /\ UNCHANGED <<op, recipeName, env, placeholderStatus, primaryCalls, secondaryBlob,
                   textVars, helperVars>>

\* response.blob() and blobToBase64 of the primary payload settle
primaryBlobSettles ==
    /\ pc = "primaryBlob"
    /\ \/ \E blob \in Blobs :
             /\ primaryStatus' = "ok"
             /\ pc' = "done"
             /\ result' = Returned(blobToBase64(blob))
             /\ UNCHANGED <<frame, secondaryStatus, secondaryCalls, logged>>
       \/ /\ primaryStatus' = "failed"
          /\ logged' = Logged("Error generating image with Hugging Face:", UndefinedText)
          /\ enterFallback("catch")
          /\ UNCHANGED result
    /\ UNCHANGED <<op, recipeName, env, placeholderStatus, primaryCalls, secondaryBlob,
                   textVars, helperVars>>

\* the secondary fetch settles
secondaryFetchSettles ==
    /\ pc = "secondaryFetch"
    /\ \E outcome \in {"throws", "notOk", "ok"} :
          IF outcome = "ok"
          THEN /\ pc' = "secondaryBlob"
               /\ UNCHANGED <<secondaryStatus, placeholderStatus, logged>>
          ELSE /\ secondaryStatus' = "failed"
               /\ logged' = Logged("Error with fallback image generation:", UndefinedText)
               /\ placeholderStatus' = "running"
               /\ pc' = "placeholder"
    /\ UNCHANGED <<op, recipeName, env, frame, primaryStatus, primaryCalls, secondaryCalls,
                   secondaryBlob, textVars, result, helperVars>>

\* secondaryBlobSettles with the payload dropped: the placeholder is returned
secondaryBlobSettlesPlaceholder ==
    /\ pc = "secondaryBlob"
    /\ \/ \E blob \in Blobs :
             /\ secondaryBlob' = blob
             /\ secondaryStatus' = "ok"
             /\ pc' = "done"
             /\ result' = Returned(generatePlaceholderImage(recipeName, "canvas"))
             /\ UNCHANGED <<placeholderStatus, logged>>
       \/ /\ secondaryStatus' = "failed"
          /\ logged' = Logged("Error with fallback image generation:", UndefinedText)
          /\ placeholderStatus' = "running"
          /\ pc' = "placeholder"
          /\ UNCHANGED <<secondaryBlob, result>>
    /\ UNCHANGED <<op, recipeName, env, frame, primaryStatus, primaryCalls, secondaryCalls,
                   textVars, helperVars>>

\* response.blob() and blobToBase64 of the secondary payload settle
secondaryBlobSettles ==
    /\ pc = "secondaryBlob"
    /\ \/ \E blob \in Blobs :
             /\ secondaryBlob' = blob
             /\ secondaryStatus' = "ok"
             /\ pc' = "done"
             /\ result' = Returned(blobToBase64(blob))
             /\ UNCHANGED <<placeholderStatus, logged>>
       \/ /\ secondaryStatus' = "failed"
          /\ logged' = Logged("Error with fallback image generation:", UndefinedText)
          /\ placeholderStatus' = "running"
          /\ pc' = "placeholder"
          /\ UNCHANGED <<secondaryBlob, result>>
    /\ UNCHANGED <<op, recipeName, env, frame, primaryStatus, primaryCalls, secondaryCalls,
                   textVars, helperVars>>

\* return generatePlaceholderImage(recipe.recipeName) in the catch block of the
\* fallback; what it throws leaves generateRecipeImageFallback and, when that
\* was called inside the try block of generateRecipeImage, lands in its catch
placeholderSettles ==
    /\ pc = "placeholder"
    /\ IF ~placeholderThrows(recipeName, env)
       THEN /\ placeholderStatus' = "ok"
            /\ pc' = "done"
            /\ result' = Returned(generatePlaceholderImage(recipeName, env))
            /\ UNCHANGED <<frame, secondaryStatus, secondaryCalls, logged>>
       ELSE /\ placeholderStatus' = "failed"
            /\ IF frame = "try"
               THEN /\ logged' = Logged("Error generating image with Hugging Face:", UndefinedText)
                    /\ enterFallback("catch")
                    /\ UNCHANGED result
               ELSE /\ pc' = "done"
                    /\ result' = Thrown(placeholderError(env))
                    /\ UNCHANGED <<frame, secondaryStatus, secondaryCalls, logged>>
    /\ UNCHANGED <<op, recipeName, env, primaryStatus, primaryCalls, secondaryBlob, textVars,
                   helperVars>>

----------------------------------------------------------------------------
(* identifyIngredients *)

\* does the try block (trim, JSON.parse, result.ingredients) throw?
ingredientsThrows(text) ==
    \/ text.kind = "undefined"
    \/ JSONParseThrows(trim(text))
    \/ getThrows(JSONParse(trim(text)))

\* return result.ingredients || []
ingredientsOr(text) ==
    LET ingredients == get(JSONParse(trim(text)), "ingredients")
    IN IF ingredients.type \in {"undefined", "null"} THEN << >> ELSE ingredients.items

\* identifyIngredientsOutcome with a catch block that rethrows
identifyIngredientsOutcomeRethrow(text) ==
    IF ingredientsThrows(text)
    THEN Thrown(Error("SyntaxError", "Unexpected token"))
    ELSE Returned(ingredientsOr(text))

\* the try/catch around the parse: what the caller gets for a response text
identifyIngredientsOutcome(text) ==
    IF ingredientsThrows(text) THEN Returned(<< >>) ELSE Returned(ingredientsOr(text))

\* identifyIngredients(base64Image) up to its await ai.models.generateContent
identifyIngredients ==
    /\ pc = "idle"
    /\ op' = "identifyIngredients"
    /\ pc' = "generateContent"
    /\ chefPersonality' = Undefined
    /\ response' = NoResponse
    /\ requestRecipes' = JUndefined
    /\ result' = NoResult
    /\ UNCHANGED <<imageVars, logged, helperVars>>

\* identifyIngredientsSettles with the generateContent call inside the try block
identifyIngredientsSettlesInTry ==
    /\ pc = "generateContent"
    /\ op = "identifyIngredients"
    /\ \/ /\ response' = [state |-> "rejected", text |-> UndefinedText]
          /\ result' = Returned(<< >>)
          /\ logged' = Logged("Failed to parse ingredients from Gemini response:",
                              UndefinedText)
       \/ \E text \in Texts :
             /\ response' = [state |-> "fulfilled", text |-> text]
             /\ result' = identifyIngredientsOutcome(text)
             /\ logged' = IF ingredientsThrows(text)
                          THEN Logged("Failed to parse ingredients from Gemini response:", text)
                          ELSE logged
    /\ pc' = "done"
    /\ UNCHANGED <<op, imageVars, chefPersonality, requestRecipes, helperVars>>

\* the generateContent call settles: outside the try block, so a rejection
\* leaves identifyIngredients; a response goes through the try/catch
identifyIngredientsSettles ==
    /\ pc = "generateContent"
    /\ op = "identifyIngredients"
    /\ \/ /\ response' = [state |-> "rejected", text |-> UndefinedText]
          /\ result' = Thrown(ApiError)
          /\ UNCHANGED logged
       \/ \E text \in Texts :
             /\ response' = [state |-> "fulfilled", text |-> text]
             /\ result' = identifyIngredientsOutcome(text)
             /\ logged' = IF ingredientsThrows(text)
                          THEN Logged("Failed to parse ingredients from Gemini response:", text)
                          ELSE logged
    /\ pc' = "done"
    /\ UNCHANGED <<op, imageVars, chefPersonality, requestRecipes, helperVars>>

----------------------------------------------------------------------------
(* generateRecipes and reinventRecipe *)

\* recipesThrows for (result.recipes || []).map: a missing list is not an error
recipesThrowsOrEmpty(text) ==
    \/ text.kind = "undefined"
    \/ JSONParseThrows(trim(text))
    \/ getThrows(JSONParse(trim(text)))

\* does the try block (trim, JSON.parse, result.recipes.map) throw?
recipesThrows(text) ==
    \/ text.kind = "undefined"
    \/ JSONParseThrows(trim(text))
    \/ getThrows(JSONParse(trim(text)))
    \/ get(JSONParse(trim(text)), "recipes").type # "array"

\* ({ chefPersonality, ...recipe }): the persona, then the own fields of recipe
personalityThenSpread(recipe, persona) ==
    [k \in DOMAIN recipe.fields \cup {"chefPersonality"} |->
        IF k \in DOMAIN recipe.fields THEN recipe.fields[k] ELSE persona]

\* ({ ...recipe, chefPersonality }): the own fields of recipe, then the persona
withPersonality(recipe, persona) ==
    [k \in DOMAIN recipe.fields \cup {"chefPersonality"} |->
        IF k = "chefPersonality" THEN persona ELSE recipe.fields[k]]

\* result.recipes.map(recipe => ({ ...recipe, chefPersonality }))
recipesWithPersonality(text, persona) ==
    LET recipes == get(JSONParse(trim(text)), "recipes").items
    IN [i \in 1..Len(recipes) |-> withPersonality(recipes[i], persona)]

\* recipesOutcome with the response text attached to the error it throws
recipesOutcomeAttaching(text, persona, message) ==
    IF recipesThrows(text)
    THEN Thrown([name |-> "Error", message |-> message, attached |-> {text}])
    ELSE Returned(recipesWithPersonality(text, persona))

\* the try/catch around the parse: the stamped recipes, or a new Error(message)
recipesOutcome(text, persona, message) ==
    IF recipesThrows(text)
    THEN Thrown(Error("Error", message))
    ELSE Returned(recipesWithPersonality(text, persona))

\* the default of the chefPersonality parameter of generateRecipes
defaultPersonality(arg) == IF arg = Undefined THEN NORMAL ELSE arg

\* generateRecipes(...) up to its await ai.models.generateContent
generateRecipes ==
    /\ pc = "idle"
    /\ op' = "generateRecipes"
    /\ pc' = "generateContent"
    /\ \E arg \in Personas \cup {Undefined} : chefPersonality' = arg
    /\ response' = NoResponse
    /\ requestRecipes' = JUndefined
    /\ result' = NoResult
    /\ UNCHANGED <<imageVars, logged, helperVars>>

generateRecipesSettles ==
    /\ pc = "generateContent"
    /\ op = "generateRecipes"
    /\ \/ /\ response' = [state |-> "rejected", text |-> UndefinedText]
          /\ result' = Thrown(ApiError)
          /\ UNCHANGED logged
       \/ \E text \in Texts :
             /\ response' = [state |-> "fulfilled", text |-> text]
             /\ result' = recipesOutcome(text, defaultPersonality(chefPersonality),
                                         "Could not parse recipe data from AI.")
             /\ logged' = IF recipesThrows(text)
                          THEN Logged("Failed to parse recipes from Gemini response:", text)
                          ELSE logged
    /\ pc' = "done"
    /\ UNCHANGED <<op, imageVars, chefPersonality, requestRecipes, helperVars>>

\* reinventRecipe(request) up to its await ai.models.generateContent
reinventRecipe ==
    /\ pc = "idle"
    /\ op' = "reinventRecipe"
    /\ pc' = "generateContent"
    /\ \E persona \in Personas : chefPersonality' = persona
    /\ response' = NoResponse
    /\ requestRecipes' = JUndefined
    /\ result' = NoResult
    /\ UNCHANGED <<imageVars, logged, helperVars>>

reinventRecipeSettles ==
    /\ pc = "generateContent"
    /\ op = "reinventRecipe"
    /\ \/ /\ response' = [state |-> "rejected", text |-> UndefinedText]
          /\ result' = Thrown(ApiError)
          /\ UNCHANGED logged
       \/ \E text \in Texts :
             /\ response' = [state |-> "fulfilled", text |-> text]
             /\ result' = recipesOutcome(text, chefPersonality,
                                         "Could not parse reinvented recipe data from AI.")
             /\ logged' = IF recipesThrows(text)
                          THEN Logged("Failed to parse reinvented recipes from Gemini response:",
                                      text)
                          ELSE logged
    /\ pc' = "done"
    /\ UNCHANGED <<op, imageVars, chefPersonality, requestRecipes, helperVars>>

----------------------------------------------------------------------------
(* generateCookingSchedule *)

\* cookingScheduleSchema.required
ScheduleFields ==
    {"totalTime", "servingTime", "steps", "recipes", "efficiencyTips", "timelineSummary"}

\* recipeSchema: required of a recipe entry
RecipeRequired ==
    {"recipeName", "ingredients", "cookingTime", "difficulty", "instructions", "calories",
     "servingSize", "nutrition", "prepTime", "cookTime"}

\* a value of the declared type for each field of a schedule document
scheduleField(k) ==
    CASE k = "totalTime" -> JNumber
      [] k = "servingTime" -> JString
      [] k = "steps" -> JArray(<<"step1">>)
      [] k = "recipes" ->
            JArray(<<JObject([recipeName |-> "Soup", estimatedFinishTime |-> "6:30 PM"])>>)
      [] k = "efficiencyTips" -> JArray(<<"tip">>)
      [] k = "timelineSummary" -> JString

\* other values a response can put there: empty lists, null, the wrong type
otherScheduleField(k) ==
    CASE k = "totalTime" -> JString
      [] k = "servingTime" -> JNull
      [] k = "steps" -> JArray(<< >>)
      [] k = "recipes" -> JArray(<< >>)
      [] k = "efficiencyTips" -> JArray(<< >>)
      [] k = "timelineSummary" -> JNull

\* schedule documents: any subset of the fields present
ScheduleValues ==
    { JObject([k \in present |-> scheduleField(k)]) : present \in SUBSET ScheduleFields }
    \cup { JObject([k \in ScheduleFields |-> otherScheduleField(k)]) }

ScheduleTexts == Texts \cup { Text("json", p, v) : p \in BOOLEAN, v \in ScheduleValues }

\* request.recipes: lists of the caller's recipes
RequestRecipes ==
    { JObject([recipeName |-> "Soup", cookingTime |-> "30 minutes"]),
      JObject([recipeName |-> "Stew", cookingTime |-> "2 hours"]) }
RequestRecipeLists == { JArray(rs) : rs \in SeqsUpTo(RequestRecipes, MaxRecipes) }

\* does the try block (trim, JSON.parse, result.totalTime) throw?
scheduleThrows(text) ==
    \/ text.kind = "undefined"
    \/ JSONParseThrows(trim(text))
    \/ getThrows(JSONParse(trim(text)))

\* cookingSchedule with the recipes taken from the response
cookingScheduleOfResponse(text, recipes) ==
    LET parsed == JSONParse(trim(text))
    IN [totalTime |-> get(parsed, "totalTime"),
        servingTime |-> get(parsed, "servingTime"),
        steps |-> get(parsed, "steps"),
        recipes |-> get(parsed, "recipes"),
        efficiencyTips |-> get(parsed, "efficiencyTips"),
        timelineSummary |-> get(parsed, "timelineSummary")]

\* the object literal returned: five fields of the parsed response, and
\* recipes: request.recipes
cookingSchedule(text, recipes) ==
    LET parsed == JSONParse(trim(text))
    IN [totalTime |-> get(parsed, "totalTime"),
        servingTime |-> get(parsed, "servingTime"),
        steps |-> get(parsed, "steps"),
        recipes |-> recipes,
        efficiencyTips |-> get(parsed, "efficiencyTips"),
        timelineSummary |-> get(parsed, "timelineSummary")]

\* the try/catch around the parse
scheduleOutcome(text, recipes) ==
    IF scheduleThrows(text)
    THEN Thrown(Error("Error", "Could not parse cooking schedule data from AI."))
    ELSE Returned(cookingSchedule(text, recipes))

\* generateCookingSchedule(request) up to its await ai.models.generateContent
generateCookingSchedule ==
    /\ pc = "idle"
    /\ op' = "generateCookingSchedule"
    /\ pc' = "generateContent"
    /\ chefPersonality' = Undefined
    /\ response' = NoResponse
    /\ \E recipes \in RequestRecipeLists : requestRecipes' = recipes
    /\ result' = NoResult
    /\ UNCHANGED <<imageVars, logged, helperVars>>

generateCookingScheduleSettles ==
    /\ pc = "generateContent"
    /\ op = "generateCookingSchedule"
    /\ \/ /\ response' = [state |-> "rejected", text |-> UndefinedText]
          /\ result' = Thrown(ApiError)
          /\ UNCHANGED logged
       \/ \E text \in ScheduleTexts :
             /\ response' = [state |-> "fulfilled", text |-> text]
             /\ result' = scheduleOutcome(text, requestRecipes)
             /\ logged' = IF scheduleThrows(text)
                          THEN Logged("Failed to parse cooking schedule from Gemini response:",
                                      text)
                          ELSE logged
    /\ pc' = "done"
    /\ UNCHANGED <<op, imageVars, chefPersonality, requestRecipes, helperVars>>

----------------------------------------------------------------------------
(* The caller *)

\* the caller has the value or the error: the call and its locals are gone,
\* and the model forgets what the call logged; the next call can start
callerResumes ==
    /\ pc = "done"
    /\ pc' = "idle"
    /\ op' = "none"
    /\ recipeName' = << >>
    /\ env' = "canvas"
    /\ frame' = "none"
    /\ primaryStatus' = "idle"
    /\ secondaryStatus' = "idle"
    /\ placeholderStatus' = "idle"
    /\ primaryCalls' = 0
    /\ secondaryCalls' = 0
    /\ secondaryBlob' = NoBlob
    /\ chefPersonality' = Undefined
    /\ response' = NoResponse
    /\ requestRecipes' = JUndefined
    /\ logged' = NothingLogged
    /\ result' = NoResult
    /\ UNCHANGED helperVars

Next ==
    \/ generateRecipeImage
    \/ primaryFetchSettles
    \/ primaryBlobSettles
    \/ secondaryFetchSettles
    \/ secondaryBlobSettles
    \/ placeholderSettles
    \/ identifyIngredients
    \/ identifyIngredientsSettles
    \/ generateRecipes
    \/ generateRecipesSettles
    \/ reinventRecipe
    \/ reinventRecipeSettles
    \/ generateCookingSchedule
    \/ generateCookingScheduleSettles
    \/ callerResumes

Spec == Init /\ [][Next]_vars

----------------------------------------------------------------------------
(* getChefPersonalityPrompt *)

\* the four directive blocks, by their opening words
AriaPrompt == "CHEF PERSONALITY: You are Chef Aria, a charismatic 28-year-old Michelin-starred chef"
RosaPrompt == "CHEF PERSONALITY: You are Chef Rosa, a vibrant 32-year-old working mom"
LunaPrompt == "CHEF PERSONALITY: You are Chef Luna, an energetic 26-year-old speed-cooking specialist"
PriyaPrompt == "CHEF PERSONALITY: You are Chef Priya, a friendly 29-year-old culinary instructor"

\* the ids a caller can pass: the four personas, and ids that are none of them
PersonalityIds == Personas \cup {Undefined, "", "grill_master"}

\* getChefPersonalityPrompt without the QUICK_CHEF case
getChefPersonalityPromptNoQuick(personality) ==
    CASE personality = MICHELIN -> AriaPrompt
      [] personality = BUDGET_MOM -> RosaPrompt
      [] OTHER -> PriyaPrompt

\* the switch: three cases and the default
getChefPersonalityPrompt(personality) ==
    CASE personality = MICHELIN -> AriaPrompt
      [] personality = BUDGET_MOM -> RosaPrompt
      [] personality = QUICK_CHEF -> LunaPrompt
      [] OTHER -> PriyaPrompt

----------------------------------------------------------------------------
(* The prompts of generateRecipes and reinventRecipe: a prompt is the sequence *)
(* of its parts, each a template and the value interpolated into it           *)

Part(clause, template, value) == [clause |-> clause, template |-> template, value |-> value]

NoPreference == <<78, 111, 32, 80, 114, 101, 102, 101, 114, 101, 110, 99, 101>>   \* "No Preference"
FlavorProfileNONE == NoPreference
RecipeStyleNONE == NoPreference

\* the optional arguments of the model
ExclusionArgs ==
    { Absent, Given(<< >>), Given(<<Space>>), Given(<<Space, 9>>),
      Given(<<110, 117, 116, 115>>),        \* "nuts"
      Given(<<32, 110, 117, 116, 115, 32>>) }   \* " nuts "
FlavorArgs ==
    { Absent, Given(<< >>), Given(NoPreference), Given(<<Space>>),
      Given(<<83, 112, 105, 99, 121>>) }    \* "Spicy"
StyleArgs ==
    { Absent, Given(<< >>), Given(NoPreference),
      Given(<<84, 104, 97, 105>>) }    \* "Thai"
PreferenceArgs == {"None", "Vegan"}
DietaryArgs == {Undefined, "Vegan"}

\* is the argument truthy: given and not the empty string
truthy(arg) == arg.given /\ arg.chars # << >>

\* exclusionText without the trim(): any non-empty string gives the clause
exclusionTextUntrimmed(excludeIngredients) ==
    IF truthy(excludeIngredients)
    THEN <<Part("exclusion",
                "IMPORTANT: Do NOT include any of these ingredients or foods in any recipe: ${}. Avoid them completely.",
                excludeIngredients.chars)>>
    ELSE << >>

\* excludeIngredients && excludeIngredients.trim() ? clause : ''
exclusionText(excludeIngredients) ==
    IF truthy(excludeIngredients) /\ trimString(excludeIngredients.chars) # << >>
    THEN <<Part("exclusion",
                "IMPORTANT: Do NOT include any of these ingredients or foods in any recipe: ${}. Avoid them completely.",
                excludeIngredients.chars)>>
    ELSE << >>

\* filterText without the test against the sentinel
filterTextNoSentinel(clause, template, arg, none) ==
    IF truthy(arg) THEN <<Part(clause, template, arg.chars)>> ELSE << >>

\* flavorProfile && flavorProfile !== none ? clause : '' (and recipeStyle alike)
filterText(clause, template, arg, none) ==
    IF truthy(arg) /\ arg.chars # none
    THEN <<Part(clause, template, arg.chars)>>
    ELSE << >>

\* the prompt template of generateRecipes
generateRecipesPrompt(args) ==
    <<Part("personality", "${}",
           getChefPersonalityPrompt(defaultPersonality(args.chefPersonality))),
      Part("preference", "And the dietary preference: ${}.",
           IF args.preference = "None" THEN "no specific preference" ELSE args.preference)>>
    \o exclusionText(args.excludeIngredients)
    \o filterText("flavor",
                  "FLAVOR FOCUS: Create recipes that emphasize ${} flavors and taste profiles.",
                  args.flavorProfile, NoPreference)
    \o filterText("style",
                  "RECIPE STYLE: Create recipes in ${} cuisine style with authentic flavors and techniques.",
                  args.recipeStyle, NoPreference)
    \o <<Part("task", "Generate 3 creative recipes that match your chef personality.", << >>)>>

\* the prompt template of reinventRecipe
reinventRecipePrompt(request) ==
    <<Part("personality", "${}", getChefPersonalityPrompt(request.chefPersonality)),
      Part("preference", "Dietary preference: ${}",
           IF request.dietaryPreference = Undefined
           THEN "no specific preference"
           ELSE request.dietaryPreference)>>
    \o exclusionText(request.excludeIngredients)
    \o filterText("flavor",
                  "FLAVOR FOCUS: Create reinvented versions that emphasize ${} flavors and taste profiles.",
                  request.flavorProfile, FlavorProfileNONE)
    \o filterText("style",
                  "RECIPE STYLE: Create reinvented versions in ${} cuisine style with authentic flavors and techniques.",
                  request.recipeStyle, RecipeStyleNONE)
    \o <<Part("task", "For each reinvented recipe, provide:", << >>)>>

----------------------------------------------------------------------------
(* The helpers applied on their own, to arguments of the model *)

mainVars == <<pc, op, imageVars, textVars, logged, result>>

callGetChefPersonalityPrompt ==
    /\ fn = "none"
    /\ \E personality \in PersonalityIds :
          /\ input' = personality
          /\ output' = getChefPersonalityPrompt(personality)
    /\ fn' = "getChefPersonalityPrompt"
    /\ UNCHANGED mainVars

callExtractCookingMethod ==
    /\ fn = "none"
    /\ \E instructions \in Instructions :
          /\ input' = instructions
          /\ output' = extractCookingMethod(instructions)
    /\ fn' = "extractCookingMethod"
    /\ UNCHANGED mainVars

buildGenerateRecipesPrompt ==
    /\ fn = "none"
    /\ \E args \in [chefPersonality : Personas \cup {Undefined},
                     preference : PreferenceArgs,
                     excludeIngredients : ExclusionArgs,
                     flavorProfile : FlavorArgs,
                     recipeStyle : StyleArgs] :
          /\ input' = args
          /\ output' = generateRecipesPrompt(args)
    /\ fn' = "generateRecipes"
    /\ UNCHANGED mainVars

buildReinventRecipePrompt ==
    /\ fn = "none"
    /\ \E request \in [chefPersonality : Personas,
                        dietaryPreference : DietaryArgs,
                        excludeIngredients : ExclusionArgs,
                        flavorProfile : FlavorArgs,
                        recipeStyle : StyleArgs] :
          /\ input' = request
          /\ output' = reinventRecipePrompt(request)
    /\ fn' = "reinventRecipe"
    /\ UNCHANGED mainVars

\* the value has been used: the next application can start
helperReturns ==
    /\ fn # "none"
    /\ fn' = "none"
    /\ input' = << >>
    /\ output' = << >>
    /\ UNCHANGED mainVars

HelperNext ==
    \/ callGetChefPersonalityPrompt
    \/ callExtractCookingMethod
    \/ buildGenerateRecipesPrompt
    \/ buildReinventRecipePrompt
    \/ helperReturns

HelperSpec == Init /\ [][HelperNext]_vars

----------------------------------------------------------------------------
(* Properties *)

ImageDone == op = "generateRecipeImage" /\ pc = "done"

\* C1: generateRecipeImage never raises: whatever the backends and the
\* environment do, the call ends by returning an image value.
C1_ImageNeverRaises == ImageDone => result.kind = "value"

\* C2: when the primary backend has failed and the secondary backend succeeds,
\* the call returns exactly the secondary payload as a data URL (its type, its
\* bytes in base64) and no error reaches the caller.
C2_SecondaryImageReturned ==
    (ImageDone /\ primaryStatus = "failed" /\ secondaryStatus = "ok") =>
        /\ result.kind = "value"
        /\ result.error = Undefined
        /\ result.value.scheme = "data"
        /\ result.value.mime = secondaryBlob.type
        /\ Base64Decode(result.value.base64) = secondaryBlob.bytes

C2_Witness ==
    /\ ImageDone /\ primaryStatus = "failed" /\ secondaryStatus = "ok"
    /\ result.kind = "value"
    /\ Len(secondaryBlob.bytes) = 2

\* the words of a text that are not empty
nonEmptyWords(text) == SelectSeq(split(text), LAMBDA w : w # << >>)

RECURSIVE joinLines(_)
joinLines(drawn) ==
    IF drawn = << >> THEN << >>
    ELSE IF Len(drawn) = 1 THEN drawn[1].text
    ELSE drawn[1].text \o <<Space>> \o joinLines(Tail(drawn))

\* image is a placeholder that shows name: the raster with the words of the
\* name on its lines, or the SVG document with the name in its text element
IsPlaceholderFor(image, name) ==
    \/ /\ image.mime = "image/jpeg"
       /\ Len(image.drawn) >= 1
       /\ nonEmptyWords(joinLines(image.drawn)) = nonEmptyWords(name)
    \/ /\ image.mime = "image/svg+xml"
       /\ Len(image.base64) >= 1
       /\ Base64Decode(image.base64) = SvgHead \o name \o SvgTail

\* C3: when both backends have failed, the call returns a non-empty placeholder
\* image that encodes the recipe name.
C3_PlaceholderOnTotalFailure ==
    (ImageDone /\ primaryStatus = "failed" /\ secondaryStatus = "failed") =>
        /\ result.kind = "value"
        /\ IsPlaceholderFor(result.value, recipeName)

Running == {t \in {"primary", "secondary", "placeholder"} :
               CASE t = "primary" -> primaryStatus = "running"
                 [] t = "secondary" -> secondaryStatus = "running"
                 [] t = "placeholder" -> placeholderStatus = "running"}

SomeTierOk == "ok" \in {primaryStatus, secondaryStatus, placeholderStatus}

C4_State ==
    op = "generateRecipeImage" =>
        /\ secondaryStatus # "idle" => primaryStatus = "failed"
        /\ placeholderStatus # "idle" => primaryStatus = "failed" /\ secondaryCalls >= 1
        /\ placeholderStatus = "running" => secondaryStatus = "failed"
        /\ Cardinality(Running) <= 1
        /\ SomeTierOk => pc = "done" /\ Running = {}

C4_Step ==
    (op = "generateRecipeImage" /\ op' = "generateRecipeImage") =>
        /\ secondaryCalls' > secondaryCalls => primaryStatus' = "failed" /\ ~SomeTierOk
        /\ (placeholderStatus' = "running" /\ placeholderStatus # "running") =>
               secondaryStatus' = "failed"
        /\ SomeTierOk => /\ primaryCalls' = primaryCalls
                         /\ secondaryCalls' = secondaryCalls
                         /\ placeholderStatus' = placeholderStatus

\* C4: the chain is sequential and advances on failure only: the secondary
\* backend is called only once the primary attempt has failed, the placeholder is
\* synthesized only once the secondary attempt has failed, no two tiers are in
\* progress together, and after a tier has succeeded no tier is attempted.
C4_SequentialChain == [](C4_State) /\ [][C4_Step]_vars

C4_Witness ==
    /\ ImageDone
    /\ primaryStatus = "failed" /\ secondaryStatus = "failed" /\ placeholderStatus = "ok"

\* C5: within one generateRecipeImage call the primary backend is called at most
\* once and the secondary backend is called at most once.
C5_NoTierRetried == primaryCalls <= 1 /\ secondaryCalls <= 1

IngredientsDone == op = "identifyIngredients" /\ pc = "done"

\* a response text identifyIngredients cannot read a list from
BadIngredientsText(text) == text.kind # "json" \/ text.value.type = "null"

\* C6: identifyIngredients never raises: on any failure, the failure of the
\* external call included, it returns the empty list.
C6_IngredientsNeverRaise ==
    IngredientsDone =>
        /\ result.kind = "value"
        /\ (response.state = "rejected" \/ BadIngredientsText(response.text)) =>
               result.value = << >>

\* C6 as amended: identifyIngredients returns the empty list, raising nothing,
\* when the response text is missing, is not JSON or is null; a failure of the
\* external call itself reaches the caller as the error the call threw.
C6_IngredientsDegradeOnPayload ==
    IngredientsDone =>
        /\ response.state = "fulfilled" =>
              /\ result.kind = "value"
              /\ BadIngredientsText(response.text) => result.value = << >>
        /\ response.state = "rejected" => result = Thrown(ApiError)

C6_Witness == IngredientsDone /\ response.state = "rejected" /\ result.kind = "error"

\* C7: a response text that fails JSON parsing makes identifyIngredients return
\* the empty list, with no error.
C7_MalformedGivesEmptyList ==
    (IngredientsDone /\ response.state = "fulfilled" /\ response.text.kind = "malformed") =>
        result = Returned(<< >>)

C7_Witness ==
    /\ IngredientsDone /\ response.state = "fulfilled"
    /\ response.text.kind = "malformed"
    /\ result.kind = "value"

RecipesDone == op \in {"generateRecipes", "reinventRecipe"} /\ pc = "done"

\* a response text that is not parseable JSON, or whose document has no
\* top-level recipes key
LacksRecipes(text) ==
    \/ text.kind # "json"
    \/ text.value.type # "object"
    \/ "recipes" \notin DOMAIN text.value.fields

\* C8: generateRecipes and reinventRecipe raise, and return no list, when the
\* response text is not parseable JSON or its document lacks the recipes key.
C8_MalformedRecipesRaise ==
    (RecipesDone /\ response.state = "fulfilled" /\ LacksRecipes(response.text)) =>
        result.kind = "error" /\ result.value = Undefined

C8_Witness ==
    /\ RecipesDone /\ response.state = "fulfilled"
    /\ response.text.kind = "json"
    /\ response.text.value.type = "object"
    /\ "recipes" \notin DOMAIN response.text.value.fields
    /\ result.kind = "error"

GenerateRecipesFailedParse ==
    /\ op = "generateRecipes" /\ pc = "done"
    /\ response.state = "fulfilled" /\ LacksRecipes(response.text)

\* C9: the failure generateRecipes raises for such a text is a distinct parse
\* error that carries the original raw response text.
C9_ParseErrorCarriesText ==
    GenerateRecipesFailedParse =>
        /\ result.kind = "error"
        /\ result.error.name = "ResponseParseError"
        /\ response.text \in result.error.attached

\* C9 as amended: the failure generateRecipes raises for such a text is a plain
\* Error with the fixed message "Could not parse recipe data from AI." that
\* carries no response text; the raw response text is written to the error log.
C9_GenericErrorTextLogged ==
    GenerateRecipesFailedParse =>
        /\ result.kind = "error"
        /\ result.error.name = "Error"
        /\ result.error.message = "Could not parse recipe data from AI."
        /\ result.error.attached = {}
        /\ logged = Logged("Failed to parse recipes from Gemini response:", response.text)

C9_Witness ==
    /\ GenerateRecipesFailedParse
    /\ result.kind = "error"
    /\ response.text.kind = "json"
    /\ response.text.padded

\* the persona a call asked for: generateRecipes falls back to the normal chef
\* when none is given
RequestedPersona ==
    IF op = "generateRecipes" /\ chefPersonality = Undefined THEN NORMAL ELSE chefPersonality

\* C10: every recipe a successful generateRecipes or reinventRecipe call returns
\* has its chefPersonality field equal to the persona requested, whether the
\* response recipe had no such field or another value in it.
C10_PersonaStamped ==
    (RecipesDone /\ result.kind = "value") =>
        \A i \in 1..Len(result.value) :
            /\ "chefPersonality" \in DOMAIN result.value[i]
            /\ result.value[i]["chefPersonality"] = RequestedPersona

C10_Witness ==
    /\ RecipesDone /\ result.kind = "value"
    /\ LET raw == response.text.value.fields["recipes"].items
       IN /\ Len(result.value) = Len(raw)
          /\ \E i \in 1..Len(raw) : "chefPersonality" \notin DOMAIN raw[i].fields
          /\ \E i \in 1..Len(raw) :
                /\ "chefPersonality" \in DOMAIN raw[i].fields
                /\ raw[i].fields["chefPersonality"] # RequestedPersona

ScheduleDone == op = "generateCookingSchedule" /\ pc = "done"

\* the response document lacks a declared required field of the schedule
SchedulePartial(text) ==
    /\ text.kind = "json"
    /\ \/ text.value.type # "object"
       \/ ~(ScheduleFields \subseteq DOMAIN text.value.fields)

\* the response document has a recipes list with an entry that lacks a declared
\* required field of a recipe
RecipePartial(text) ==
    /\ text.kind = "json"
    /\ text.value.type = "object"
    /\ "recipes" \in DOMAIN text.value.fields
    /\ text.value.fields["recipes"].type = "array"
    /\ \E i \in 1..Len(text.value.fields["recipes"].items) :
          ~(RecipeRequired \subseteq DOMAIN text.value.fields["recipes"].items[i].fields)

\* C11: no partial object is accepted: generateCookingSchedule raises when the
\* parsed response lacks a required top-level field, generateRecipes and
\* reinventRecipe raise when a returned recipe lacks a required field.
C11_PartialObjectsRejected ==
    /\ (ScheduleDone /\ response.state = "fulfilled" /\ SchedulePartial(response.text)) =>
           result.kind = "error"
    /\ (RecipesDone /\ response.state = "fulfilled" /\ RecipePartial(response.text)) =>
           result.kind = "error"

\* the field k of the parsed response, undefined when it has none
ResponseField(k) ==
    IF response.text.value.type = "object" /\ k \in DOMAIN response.text.value.fields
    THEN response.text.value.fields[k]
    ELSE JUndefined

\* C17: the recipes of the schedule a successful generateCookingSchedule call
\* returns are the recipes of the request, whatever recipes the response had;
\* totalTime, servingTime, steps, efficiencyTips and timelineSummary are those of
\* the parsed response.
C17_ScheduleRecipesFromRequest ==
    (ScheduleDone /\ result.kind = "value") =>
        /\ result.value.recipes = requestRecipes
        /\ \A k \in ScheduleFields \ {"recipes"} : result.value[k] = ResponseField(k)

C17_Witness ==
    /\ ScheduleDone /\ result.kind = "value"
    /\ ResponseField("recipes").type = "array"
    /\ ResponseField("recipes") # requestRecipes
    /\ Len(requestRecipes.items) = 2
    /\ ResponseField("steps").type = "array"

\* C12: the persona lookup is total and fixed: each of the three specialised
\* personas gets its own directive text, the default persona and every id that
\* is not recognized get the text of the default persona, and the text depends
\* on the id alone.
C12_PersonaLookup ==
    fn = "getChefPersonalityPrompt" =>
        /\ input = MICHELIN => output = AriaPrompt
        /\ input = BUDGET_MOM => output = RosaPrompt
        /\ input = QUICK_CHEF => output = LunaPrompt
        /\ input \notin {MICHELIN, BUDGET_MOM, QUICK_CHEF} => output = PriyaPrompt
        /\ Cardinality({AriaPrompt, RosaPrompt, LunaPrompt, PriyaPrompt}) = 4

C12_Witness ==
    /\ fn = "getChefPersonalityPrompt"
    /\ input \notin Personas
    /\ output = PriyaPrompt

Entry(keywords, phrase) == [keywords |-> keywords, phrase |-> phrase]

\* the priority table as the claims state it
ClaimedEntries ==
    << Entry({KwBake}, "baked to perfection"),
       Entry({KwFry, KwPan}, "pan-fried until golden"),
       Entry({KwGrill}, "grilled with char marks"),
       Entry({KwBoil, KwSimmer}, "simmered carefully"),
       Entry({KwSteam}, "steamed delicately"),
       Entry({KwRoast}, "roasted until tender"),
       Entry({KwSaute}, "sautéed with herbs"),
       Entry({KwMix, KwToss}, "artfully combined") >>

\* the same table with "oven" as a second keyword of its first entry
EntriesWithOven == [ClaimedEntries EXCEPT ![1] = Entry({KwBake, KwOven}, "baked to perfection")]

DefaultPhrase == "expertly prepared"

\* the instructions the helper was applied to, as one text in lower case
InstructionsText == toLowerCase(join(input, <<Space>>))

Matching(entries) ==
    {i \in 1..Len(entries) : \E kw \in entries[i].keywords : includes(InstructionsText, kw)}

FirstMatch(entries) ==
    entries[CHOOSE i \in Matching(entries) : \A j \in Matching(entries) : i <= j].phrase

\* C13: selection is first-match-wins over the order bake, fry/pan, grill,
\* boil/simmer, steam, roast, saute, mix/toss: a text with keywords of several
\* entries gets the phrase of the first of them, wherever the keywords stand.
C13_FirstMatchWins ==
    (fn = "extractCookingMethod" /\ Cardinality(Matching(ClaimedEntries)) >= 2) =>
        output = FirstMatch(ClaimedEntries)

\* C13 as amended: selection is first-match-wins over the order bake/oven,
\* fry/pan, grill, boil/simmer, steam, roast, saute, mix/toss: a text with
\* keywords of several entries gets the phrase of the first of them, wherever
\* the keywords stand.
C13_FirstMatchWinsWithOven ==
    (fn = "extractCookingMethod" /\ Cardinality(Matching(EntriesWithOven)) >= 2) =>
        output = FirstMatch(EntriesWithOven)

C13_Witness ==
    /\ fn = "extractCookingMethod"
    /\ input = <<KwToss, KwGrill, KwBake>>
    /\ output = "baked to perfection"

\* C14: the default phrase is returned exactly when the text has none of the
\* keywords bake, fry, pan, grill, boil, simmer, steam, roast, saute, mix, toss.
C14_DefaultIffNoKeyword ==
    fn = "extractCookingMethod" =>
        (output = DefaultPhrase <=> Matching(ClaimedEntries) = {})

\* C14 as amended: the default phrase is returned exactly when the text has
\* none of the keywords bake, oven, fry, pan, grill, boil, simmer, steam, roast,
\* saute, mix, toss.
C14_DefaultIffNoKeywordOrOven ==
    fn = "extractCookingMethod" =>
        (output = DefaultPhrase <=> Matching(EntriesWithOven) = {})

C14_Witness ==
    /\ fn = "extractCookingMethod"
    /\ Len(input) = 2
    /\ Matching(EntriesWithOven) = {}
    /\ output = DefaultPhrase

PromptBuilt == fn \in {"generateRecipes", "reinventRecipe"}

\* the parts of the prompt that are clauses of one kind
Clauses(kind) == SelectSeq(output, LAMBDA part : part.clause = kind)

OnlyWhiteSpace(str) == \A i \in 1..Len(str) : str[i] \in WhiteSpace

\* C15: with an empty or absent exclusion string the prompt has no exclusion
\* clause; with any non-empty exclusion string it has exactly one, which
\* contains the string verbatim.
C15_ExclusionClause ==
    PromptBuilt =>
        IF ~input.excludeIngredients.given \/ input.excludeIngredients.chars = << >>
        THEN Clauses("exclusion") = << >>
        ELSE /\ Len(Clauses("exclusion")) = 1
             /\ Clauses("exclusion")[1].value = input.excludeIngredients.chars

\* C15 as amended: with an absent, empty or white-space-only exclusion string
\* the prompt has no exclusion clause; with any other exclusion string it has
\* exactly one, which contains the string verbatim (untrimmed).
C15_ExclusionClauseUnlessBlank ==
    PromptBuilt =>
        IF ~input.excludeIngredients.given \/ OnlyWhiteSpace(input.excludeIngredients.chars)
        THEN Clauses("exclusion") = << >>
        ELSE /\ Len(Clauses("exclusion")) = 1
             /\ Clauses("exclusion")[1].value = input.excludeIngredients.chars

C15_Witness ==
    /\ PromptBuilt
    /\ input.excludeIngredients.given
    /\ input.excludeIngredients.chars # trimString(input.excludeIngredients.chars)
    /\ Len(Clauses("exclusion")) = 1

\* the "no preference" value of each operation
FlavorNone == IF fn = "generateRecipes" THEN NoPreference ELSE FlavorProfileNONE
StyleNone == IF fn = "generateRecipes" THEN NoPreference ELSE RecipeStyleNONE

\* the clause of one filter is there exactly when the filter has a value that is
\* not the sentinel, once, with the value in it
FilterClause(kind, arg, none) ==
    IF ~arg.given \/ arg.chars = << >> \/ arg.chars = none
    THEN Clauses(kind) = << >>
    ELSE /\ Len(Clauses(kind)) = 1
         /\ Clauses(kind)[1].value = arg.chars

\* C16: the flavor clause and the style clause are each left out when the
\* filter is absent, empty or the "no preference" sentinel, and are there once,
\* with the filter value, otherwise; no clause depends on another filter.
C16_FlavorStyleClauses ==
    PromptBuilt =>
        /\ FilterClause("flavor", input.flavorProfile, FlavorNone)
        /\ FilterClause("style", input.recipeStyle, StyleNone)

C16_Witness ==
    /\ fn = "reinventRecipe"
    /\ input.recipeStyle = Given(RecipeStyleNONE)
    /\ ~input.excludeIngredients.given
    /\ Len(Clauses("flavor")) = 1
    /\ Clauses("style") = << >>

====
